---- MODULE Spec2Model ----
(***************************************************************************)
(* Ricart-Agrawala mutual exclusion over Lamport clocks, as implemented by *)
(* client.py (IntelligentClient, MutualExclusionServiceImpl),              *)
(* lamport_clock.py (LamportClock) and print_server.py.                    *)
(*                                                                         *)
(* Every peer runs one workload thread (run_automatic_requests ->          *)
(* print_document) and one gRPC worker thread per inbound call.  A block   *)
(* under "with self.lock" that touches the clock is two steps (the read of *)
(* clock.time, then the write), with the lock held in between; a clock     *)
(* operation outside the lock is two steps as well, so that the unlocked   *)
(* clock.update calls race with the locked increments as they do in the    *)
(* code.                                                                   *)
(***************************************************************************)
EXTENDS Integers, Sequences, FiniteSets, TLC

\* client.py: "Default configuration for 3 clients" (ids 1, 2, 3).
NumPeers == 3

Peers == 1..NumPeers

\* Bounds of the model.
MaxPrints == 1
MaxFaults == 1
MaxStartClock == 6
MaxHarnessTime == 12
MaxReceived == 8
MaxInFlight == 1
MaxStamp == 3
MaxCycles == 3
MaxIdleClock == 3

\* The stamps of the competing requests of the race scenarios.
TieStamp == 5
LateStamp == 7

VARIABLES
    time,               \* LamportClock.time of each peer
    requesting,         \* IntelligentClient.requesting
    request_timestamp,  \* IntelligentClient.request_timestamp
    request_number,     \* IntelligentClient.request_number
    replies_received,   \* IntelligentClient.replies_received
    deferred_requests,  \* IntelligentClient.deferred_requests: Seq of <<client_id, ts>>
    lock,               \* IntelligentClient.lock: 0 free, p = p's workload thread,
                        \* q # p = the worker thread serving q's call
    other_clients,      \* IntelligentClient.other_clients (ids, in configured order)
    up,                 \* the peer process is running and reachable
    printer_up,         \* the print server is running and reachable
    prints_left,        \* documents the workload of the peer still has to print
    faults_left,        \* transport errors the network may still raise on calls
                        \* to a running server
    pc,                 \* position of the workload thread
    idx,                \* loop index into other_clients (request / release broadcast)
    rd,                 \* workload thread: value of clock.time it has read
    current_request,    \* local of request_critical_section
    current_timestamp,  \* local of request_critical_section
    release_timestamp,  \* local of release_critical_section
    rpc,                \* the outbound mutual-exclusion call of each peer, with the
                        \* state of the worker thread serving it at the target
    prn,                \* the outbound SendToPrinter call of each peer
    ps_time,            \* PrintingServiceImpl.clock.time
    counted,            \* history: <<peer, outcome>> of each reply counted this cycle
    dec,                \* history: dec[p][q] = p's decision on q's request
    ck,                 \* a LamportClock driven by one sequential caller
    cmp,                \* two or three requests and the outcome of comparing them
    issued              \* history: the request_timestamp of every request of a peer

vars == <<time, requesting, request_timestamp, request_number, replies_received,
          deferred_requests, lock, other_clients, up, printer_up, prints_left,
          faults_left, pc,
          idx, rd,
          current_request, current_timestamp, release_timestamp, rpc, prn,
          ps_time, counted, dec, ck, cmp, issued>>

peerVars == <<requesting, request_timestamp, request_number, replies_received,
              deferred_requests>>
localVars == <<current_request, current_timestamp, release_timestamp>>
\* What no step of a peer's threads or of the print server changes.
envVars == <<other_clients, up, printer_up, faults_left>>

----------------------------------------------------------------------------
(* lamport_clock.py *)

Max(a, b) == IF a >= b THEN a ELSE b

\* LamportClock.increment: self.time += 1, on the value t that was read.
ClockIncrement(t) == t + 1

\* update() that forgets the local time.
ClockUpdateNoMax(t, received_time) == received_time + 1

\* update() that takes the maximum and does not step past it.
ClockUpdateNoStep(t, received_time) == Max(t, received_time)

\* LamportClock.update: self.time = max(self.time, received_time) + 1.
ClockUpdate(t, received_time) == Max(t, received_time) + 1

\* get_time() that steps the clock it reads.
GetTimeStepping(t) == t + 1

\* LamportClock.get_time: return self.time.
GetTime(t) == t

----------------------------------------------------------------------------
(* client.py: pure parts *)

\* A comparison that looks at the timestamps alone.
TupleLessByStamp(a, b) == a[1] < b[1]

\* Python's "<" on two 2-tuples of ints: the first differing component decides.
TupleLess(a, b) ==
    IF a[1] # b[1] THEN a[1] < b[1] ELSE a[2] < b[2]

\* should_grant that defers every request.
ShouldGrantNever(is_requesting, own_timestamp, own_id, requesting_timestamp, requesting_client) ==
    FALSE

\* should_grant that compares the timestamps and ignores the ids.
ShouldGrantByStampOnly(is_requesting, own_timestamp, own_id, requesting_timestamp, requesting_client) ==
    \/ ~is_requesting
    \/ requesting_timestamp < own_timestamp

\* should_grant that grants whatever the peer's own request is.
ShouldGrantAlways(is_requesting, own_timestamp, own_id, requesting_timestamp, requesting_client) ==
    TRUE

\* should_grant with the comparison the wrong way round.
ShouldGrantReversed(is_requesting, own_timestamp, own_id, requesting_timestamp, requesting_client) ==
    \/ ~is_requesting
    \/ TupleLess(<<own_timestamp, own_id>>, <<requesting_timestamp, requesting_client>>)

\* should_grant that grants only when the peer is not requesting.
ShouldGrantIdleOnly(is_requesting, own_timestamp, own_id, requesting_timestamp, requesting_client) ==
    ~is_requesting

\* RequestAccess: should_grant.
ShouldGrant(is_requesting, own_timestamp, own_id, requesting_timestamp, requesting_client) ==
    \/ ~is_requesting
    \/ TupleLess(<<requesting_timestamp, requesting_client>>, <<own_timestamp, own_id>>)

\* A response counted twice.
CountResponseTwice(n) == n + 2

\* send_access_request: self.replies_received += 1 after a response.
CountResponse(n) == n + 1

\* An except branch that logs and counts nothing.
CountRpcErrorDropped(n) == n

\* send_access_request: self.replies_received += 1 in the except branch.
CountRpcError(n) == n + 1

\* request_critical_section: self.replies_received = 0.
ResetReplies == 0

\* A wait that asks for one reply more than there are peers.
QuorumStrict(replies, required) == replies > required

\* A wait that wants at least one reply before it looks at the quorum.
QuorumAfterReply(replies, required) == replies > 0 /\ replies >= required

\* request_critical_section: if self.replies_received >= required_replies: break.
QuorumReached(replies, required) == replies >= required

\* The peers other than p among S, in ascending order, as the __main__ block
\* of client.py lists them.
RECURSIVE AscendingSeq(_)
AscendingSeq(S) ==
    IF S = {} THEN <<>>
    ELSE LET m == CHOOSE x \in S : \A y \in S : x <= y
         IN <<m>> \o AscendingSeq(S \ {m})

OtherClientsOf(p, S) == IF p \in S THEN AscendingSeq(S \ {p}) ELSE <<>>

NoRpc == [kind |-> "none", tgt |-> 0, ts |-> 0, num |-> 0, phase |-> "none",
          hr |-> 0, granted |-> FALSE, rts |-> 0]

NoPrn == [phase |-> "none", ts |-> 0, hr |-> 0, rts |-> 0]

NoDec == [made |-> FALSE, granted |-> FALSE, was_requesting |-> FALSE,
          own_ts |-> 0, own_num |-> 0, ts |-> 0, num |-> 0]

NoCk == [time |-> 0, prev |-> 0, op |-> "none", arg |-> 0, ret |-> 0]

NoCmp == [done |-> FALSE, r |-> <<>>, less |-> <<>>]

----------------------------------------------------------------------------
(* Initial states.  IntelligentClient.__init__ sets requesting = False, the  *)
(* counters to 0 and the queue to []; other_clients is the constructor's     *)
(* argument.  S is the set of configured peers, U those of them that run,    *)
(* pu whether the print server runs,                                         *)
(* n[p] the number of documents p's workload prints, c[p] the clock value of *)
(* p when the run starts, f the number of transport errors the network may   *)
(* raise on calls to running servers.                                        *)

InitWith(S, U, pu, n, c, f) ==
    /\ time = c
    /\ requesting = [p \in Peers |-> FALSE]
    /\ request_timestamp = [p \in Peers |-> 0]
    /\ request_number = [p \in Peers |-> 0]
    /\ replies_received = [p \in Peers |-> 0]
    /\ deferred_requests = [p \in Peers |-> <<>>]
    /\ lock = [p \in Peers |-> 0]
    /\ other_clients = [p \in Peers |-> OtherClientsOf(p, S)]
    /\ up = [p \in Peers |-> p \in U]
    /\ printer_up = pu
    /\ prints_left = [p \in Peers |-> IF p \in U THEN n[p] ELSE 0]
    /\ faults_left = f
    /\ pc = [p \in Peers |-> IF p \in U THEN "idle" ELSE "off"]
    /\ idx = [p \in Peers |-> 0]
    /\ rd = [p \in Peers |-> 0]
    /\ current_request = [p \in Peers |-> 0]
    /\ current_timestamp = [p \in Peers |-> 0]
    /\ release_timestamp = [p \in Peers |-> 0]
    /\ rpc = [p \in Peers |-> NoRpc]
    /\ prn = [p \in Peers |-> NoPrn]
    /\ ps_time = 0
    /\ counted = [p \in Peers |-> <<>>]
    /\ dec = [p \in Peers |-> [q \in Peers |-> NoDec]]
    /\ issued = [p \in Peers |-> <<>>]

ZeroClocks == [p \in Peers |-> 0]

----------------------------------------------------------------------------
(* The transport.  A call to a server that does not run can only raise      *)
(* grpc.RpcError (connection refused, or the timeout of the call).  A call   *)
(* to a running server raises it when the network loses the request before  *)
(* it is served or the response after it was served; a deadline that        *)
(* expires before the call is served cancels the call.                       *)

RpcErrorRaised(phase, server_up) ==
    \/ ~server_up /\ phase = "sent"
    \/ server_up /\ phase \in {"sent", "resp"} /\ faults_left > 0

FaultsAfter(server_up) == IF server_up THEN faults_left - 1 ELSE faults_left

----------------------------------------------------------------------------
(* The workload thread of peer p: print_document.                          *)

\* A workload that starts its next request while the release broadcast of the
\* previous one is still going on.
StartRequestOverlapping(p) ==
    /\ pc[p] \in {"idle", "rel_send"}
    /\ prints_left[p] > 0
    /\ lock[p] = 0
    /\ lock' = [lock EXCEPT ![p] = p]
    /\ prints_left' = [prints_left EXCEPT ![p] = @ - 1]
    /\ requesting' = [requesting EXCEPT ![p] = TRUE]
    /\ request_number' = [request_number EXCEPT ![p] = @ + 1]
    /\ rd' = [rd EXCEPT ![p] = time[p]]
    /\ pc' = [pc EXCEPT ![p] = "req_inc"]
    /\ UNCHANGED <<time, request_timestamp, replies_received, deferred_requests,
                   envVars, idx, localVars, rpc, prn, ps_time, counted, dec, ck, cmp, issued>>

\* A request_critical_section that changes the request state without the lock.
StartRequestUnlocked(p) ==
    /\ pc[p] = "idle"
    /\ prints_left[p] > 0
    /\ prints_left' = [prints_left EXCEPT ![p] = @ - 1]
    /\ requesting' = [requesting EXCEPT ![p] = TRUE]
    /\ request_number' = [request_number EXCEPT ![p] = @ + 1]
    /\ rd' = [rd EXCEPT ![p] = time[p]]
    /\ pc' = [pc EXCEPT ![p] = "req_inc"]
    /\ UNCHANGED <<time, request_timestamp, replies_received, deferred_requests, lock,
                   envVars, idx, localVars, rpc, prn, ps_time, counted, dec, ck, cmp, issued>>

\* request_critical_section, first half of the locked block: requesting = True,
\* request_number += 1, and clock.increment() has read clock.time.
StartRequest(p) ==
    /\ pc[p] = "idle"
    /\ prints_left[p] > 0
    /\ lock[p] = 0
    /\ lock' = [lock EXCEPT ![p] = p]
    /\ prints_left' = [prints_left EXCEPT ![p] = @ - 1]
    /\ requesting' = [requesting EXCEPT ![p] = TRUE]
    /\ request_number' = [request_number EXCEPT ![p] = @ + 1]
    /\ rd' = [rd EXCEPT ![p] = time[p]]
    /\ pc' = [pc EXCEPT ![p] = "req_inc"]
    /\ UNCHANGED <<time, request_timestamp, replies_received, deferred_requests,
                   envVars, idx, localVars, rpc, prn, ps_time, counted, dec, ck, cmp, issued>>

\* A request_critical_section that does not reset replies_received.
StampRequestKeepingReplies(p) ==
    /\ pc[p] = "req_inc"
    /\ time' = [time EXCEPT ![p] = ClockIncrement(rd[p])]
    /\ request_timestamp' = [request_timestamp EXCEPT ![p] = ClockIncrement(rd[p])]
    /\ current_request' = [current_request EXCEPT ![p] = request_number[p]]
    /\ current_timestamp' = [current_timestamp EXCEPT ![p] = ClockIncrement(rd[p])]
    /\ lock' = [lock EXCEPT ![p] = 0]
    /\ rd' = [rd EXCEPT ![p] = 0]
    /\ idx' = [idx EXCEPT ![p] = 1]
    /\ counted' = [counted EXCEPT ![p] = <<>>]
    /\ pc' = [pc EXCEPT ![p] = IF Len(other_clients[p]) = 0 THEN "poll" ELSE "send"]
    /\ issued' = [issued EXCEPT ![p] = Append(@, ClockIncrement(rd[p]))]
    /\ UNCHANGED <<requesting, request_number, replies_received, deferred_requests,
                   envVars, prints_left, release_timestamp, rpc, prn, ps_time, dec,
                   ck, cmp>>

\* request_critical_section, second half of the locked block: the increment is
\* written, request_timestamp takes it, replies_received is reset, the locals
\* are captured and the lock is released.
StampRequest(p) ==
    /\ pc[p] = "req_inc"
    /\ time' = [time EXCEPT ![p] = ClockIncrement(rd[p])]
    /\ request_timestamp' = [request_timestamp EXCEPT ![p] = ClockIncrement(rd[p])]
    /\ replies_received' = [replies_received EXCEPT ![p] = ResetReplies]
    /\ current_request' = [current_request EXCEPT ![p] = request_number[p]]
    /\ current_timestamp' = [current_timestamp EXCEPT ![p] = ClockIncrement(rd[p])]
    /\ lock' = [lock EXCEPT ![p] = 0]
    /\ rd' = [rd EXCEPT ![p] = 0]
    /\ idx' = [idx EXCEPT ![p] = 1]
    /\ counted' = [counted EXCEPT ![p] = <<>>]
    /\ pc' = [pc EXCEPT ![p] = IF Len(other_clients[p]) = 0 THEN "poll" ELSE "send"]
    /\ issued' = [issued EXCEPT ![p] = Append(@, ClockIncrement(rd[p]))]
    /\ UNCHANGED <<requesting, request_number, deferred_requests, envVars,
                   prints_left, release_timestamp, rpc, prn, ps_time, dec, ck, cmp>>

\* A send_access_request that stamps each message with the clock of the moment.
SendAccessRequestFreshStamp(p) ==
    /\ pc[p] = "send"
    /\ rpc' = [rpc EXCEPT ![p] = [NoRpc EXCEPT !.kind = "req",
                                               !.tgt = other_clients[p][idx[p]],
                                               !.ts = time[p],
                                               !.num = current_request[p],
                                               !.phase = "sent"]]
    /\ pc' = [pc EXCEPT ![p] = "await"]
    /\ UNCHANGED <<time, peerVars, lock, envVars, prints_left, idx, rd, localVars,
                   prn, ps_time, counted, dec, ck, cmp, issued>>

\* send_access_request: the AccessRequest is built from the captured locals and
\* stub.RequestAccess is called.
SendAccessRequest(p) ==
    /\ pc[p] = "send"
    /\ rpc' = [rpc EXCEPT ![p] = [NoRpc EXCEPT !.kind = "req",
                                               !.tgt = other_clients[p][idx[p]],
                                               !.ts = current_timestamp[p],
                                               !.num = current_request[p],
                                               !.phase = "sent"]]
    /\ pc' = [pc EXCEPT ![p] = "await"]
    /\ UNCHANGED <<time, peerVars, lock, envVars, prints_left, idx, rd, localVars,
                   prn, ps_time, counted, dec, ck, cmp, issued>>

\* send_access_request: stub.RequestAccess raises grpc.RpcError (the target is
\* unreachable or the call timed out before it was served, or the response was
\* lost after it was served).
RequestFailed(p) ==
    /\ pc[p] = "await"
    /\ RpcErrorRaised(rpc[p].phase, up[rpc[p].tgt])
    /\ faults_left' = FaultsAfter(up[rpc[p].tgt])
    /\ rpc' = [rpc EXCEPT ![p] = [NoRpc EXCEPT !.tgt = rpc[p].tgt]]
    /\ pc' = [pc EXCEPT ![p] = "count_err"]
    /\ UNCHANGED <<time, peerVars, lock, other_clients, up, printer_up, prints_left, idx, rd,
                   localVars, prn, ps_time, counted, dec, ck, cmp, issued>>

\* send_access_request: the response arrives and clock.update(response
\* timestamp), outside the lock, has read clock.time.
RecvAccessResponse(p) ==
    /\ pc[p] = "await"
    /\ rpc[p].phase = "resp"
    /\ rd' = [rd EXCEPT ![p] = time[p]]
    /\ pc' = [pc EXCEPT ![p] = "resp_upd"]
    /\ UNCHANGED <<time, peerVars, lock, envVars, prints_left, idx, localVars,
                   rpc, prn, ps_time, counted, dec, ck, cmp, issued>>

\* send_access_request: clock.update writes max(read, response timestamp) + 1.
UpdateFromResponse(p) ==
    /\ pc[p] = "resp_upd"
    /\ time' = [time EXCEPT ![p] = ClockUpdate(rd[p], rpc[p].rts)]
    /\ rd' = [rd EXCEPT ![p] = 0]
    /\ pc' = [pc EXCEPT ![p] = "count"]
    /\ UNCHANGED <<peerVars, lock, envVars, prints_left, idx, localVars, rpc, prn,
                   ps_time, counted, dec, ck, cmp, issued>>

\* A broadcast loop that stops at the first reply.
AfterSendFirstReply(p) == "cs"

\* The loop of request_critical_section moves to the next peer, or to the wait.
AfterSend(p) == IF idx[p] < Len(other_clients[p]) THEN "send" ELSE "poll"

\* A send_access_request that counts the grants only.
CountReplyGrantsOnly(p) ==
    /\ pc[p] = "count"
    /\ lock[p] = 0
    /\ replies_received' = [replies_received EXCEPT ![p] =
                                IF rpc[p].granted THEN CountResponse(@) ELSE @]
    /\ counted' = [counted EXCEPT ![p] =
                      Append(@, <<rpc[p].tgt, IF rpc[p].granted THEN "grant" ELSE "defer">>)]
    /\ rpc' = [rpc EXCEPT ![p] = NoRpc]
    /\ idx' = [idx EXCEPT ![p] = @ + 1]
    /\ pc' = [pc EXCEPT ![p] = AfterSend(p)]
    /\ UNCHANGED <<time, requesting, request_timestamp, request_number,
                   deferred_requests, lock, envVars, prints_left, rd, localVars,
                   prn, ps_time, dec, ck, cmp, issued>>

\* send_access_request: with self.lock: self.replies_received += 1, in the
\* access_granted branch and in the deferred branch alike.
CountReply(p) ==
    /\ pc[p] = "count"
    /\ lock[p] = 0
    /\ replies_received' = [replies_received EXCEPT ![p] = CountResponse(@)]
    /\ counted' = [counted EXCEPT ![p] =
                      Append(@, <<rpc[p].tgt, IF rpc[p].granted THEN "grant" ELSE "defer">>)]
    /\ rpc' = [rpc EXCEPT ![p] = NoRpc]
    /\ idx' = [idx EXCEPT ![p] = @ + 1]
    /\ pc' = [pc EXCEPT ![p] = AfterSend(p)]
    /\ UNCHANGED <<time, requesting, request_timestamp, request_number,
                   deferred_requests, lock, envVars, prints_left, rd, localVars,
                   prn, ps_time, dec, ck, cmp, issued>>

\* send_access_request: except grpc.RpcError: with self.lock:
\* self.replies_received += 1.
CountFailed(p) ==
    /\ pc[p] = "count_err"
    /\ lock[p] = 0
    /\ replies_received' = [replies_received EXCEPT ![p] = CountRpcError(@)]
    /\ counted' = [counted EXCEPT ![p] = Append(@, <<rpc[p].tgt, "error">>)]
    /\ rpc' = [rpc EXCEPT ![p] = NoRpc]
    /\ idx' = [idx EXCEPT ![p] = @ + 1]
    /\ pc' = [pc EXCEPT ![p] = AfterSend(p)]
    /\ UNCHANGED <<time, requesting, request_timestamp, request_number,
                   deferred_requests, lock, envVars, prints_left, rd, localVars,
                   prn, ps_time, dec, ck, cmp, issued>>

\* request_critical_section: one round of the wait loop; it breaks when the
\* quorum is reached and sleeps otherwise.
PollQuorum(p) ==
    /\ pc[p] = "poll"
    /\ lock[p] = 0
    /\ pc' = [pc EXCEPT ![p] =
                 IF QuorumReached(replies_received[p], Len(other_clients[p]))
                 THEN "cs" ELSE "poll"]
    /\ UNCHANGED <<time, peerVars, lock, envVars, prints_left, idx, rd, localVars,
                   rpc, prn, ps_time, counted, dec, ck, cmp, issued>>

\* send_to_printer: timestamp = self.clock.increment(), outside the lock, has
\* read clock.time.
PrinterIncRead(p) ==
    /\ pc[p] = "cs"
    /\ rd' = [rd EXCEPT ![p] = time[p]]
    /\ pc' = [pc EXCEPT ![p] = "prt_inc"]
    /\ UNCHANGED <<time, peerVars, lock, envVars, prints_left, idx, localVars,
                   rpc, prn, ps_time, counted, dec, ck, cmp, issued>>

\* send_to_printer: the increment is written and stub.SendToPrinter is called
\* with it.
SendToPrinter(p) ==
    /\ pc[p] = "prt_inc"
    /\ time' = [time EXCEPT ![p] = ClockIncrement(rd[p])]
    /\ prn' = [prn EXCEPT ![p] = [NoPrn EXCEPT !.phase = "sent",
                                               !.ts = ClockIncrement(rd[p])]]
    /\ rd' = [rd EXCEPT ![p] = 0]
    /\ pc' = [pc EXCEPT ![p] = "prt_await"]
    /\ UNCHANGED <<peerVars, lock, envVars, prints_left, idx, localVars, rpc,
                   ps_time, counted, dec, ck, cmp, issued>>

\* A print_document that gives up on a transport error without releasing.
PrintFailedSkippingRelease(p) ==
    /\ pc[p] = "prt_await"
    /\ RpcErrorRaised(prn[p].phase, printer_up)
    /\ faults_left' = FaultsAfter(printer_up)
    /\ prn' = [prn EXCEPT ![p] = NoPrn]
    /\ pc' = [pc EXCEPT ![p] = "idle"]
    /\ UNCHANGED <<time, peerVars, lock, other_clients, up, printer_up, prints_left, idx, rd,
                   localVars, rpc, ps_time, counted, dec, ck, cmp, issued>>

\* send_to_printer: stub.SendToPrinter raises grpc.RpcError; it is logged and
\* send_to_printer returns.
PrintFailed(p) ==
    /\ pc[p] = "prt_await"
    /\ RpcErrorRaised(prn[p].phase, printer_up)
    /\ faults_left' = FaultsAfter(printer_up)
    /\ prn' = [prn EXCEPT ![p] = NoPrn]
    /\ pc' = [pc EXCEPT ![p] = "release"]
    /\ UNCHANGED <<time, peerVars, lock, other_clients, up, printer_up, prints_left, idx, rd,
                   localVars, rpc, ps_time, counted, dec, ck, cmp, issued>>

\* send_to_printer: the PrintResponse arrives and clock.update(response
\* timestamp), outside the lock, has read clock.time.
RecvPrintResponse(p) ==
    /\ pc[p] = "prt_await"
    /\ prn[p].phase = "resp"
    /\ rd' = [rd EXCEPT ![p] = time[p]]
    /\ pc' = [pc EXCEPT ![p] = "prt_upd"]
    /\ UNCHANGED <<time, peerVars, lock, envVars, prints_left, idx, localVars,
                   rpc, prn, ps_time, counted, dec, ck, cmp, issued>>

\* send_to_printer: clock.update writes, and send_to_printer returns.
UpdateFromPrint(p) ==
    /\ pc[p] = "prt_upd"
    /\ time' = [time EXCEPT ![p] = ClockUpdate(rd[p], prn[p].rts)]
    /\ rd' = [rd EXCEPT ![p] = 0]
    /\ prn' = [prn EXCEPT ![p] = NoPrn]
    /\ pc' = [pc EXCEPT ![p] = "release"]
    /\ UNCHANGED <<peerVars, lock, envVars, prints_left, idx, localVars, rpc,
                   ps_time, counted, dec, ck, cmp, issued>>

\* A release that clears the flag and leaves the queue as it is.
StartReleaseKeepingQueue(p) ==
    /\ pc[p] = "release"
    /\ lock[p] = 0
    /\ lock' = [lock EXCEPT ![p] = p]
    /\ requesting' = [requesting EXCEPT ![p] = FALSE]
    /\ rd' = [rd EXCEPT ![p] = time[p]]
    /\ dec' = [a \in Peers |-> [b \in Peers |->
                  IF a = p \/ b = p THEN NoDec ELSE dec[a][b]]]
    /\ pc' = [pc EXCEPT ![p] = "rel_inc"]
    /\ UNCHANGED <<time, request_timestamp, request_number, replies_received,
                   deferred_requests, envVars, prints_left, idx, localVars, rpc,
                   prn, ps_time, counted, ck, cmp, issued>>

\* A release that flips the flag instead of clearing it.
StartReleaseFlipping(p) ==
    /\ pc[p] = "release"
    /\ lock[p] = 0
    /\ lock' = [lock EXCEPT ![p] = p]
    /\ requesting' = [requesting EXCEPT ![p] = ~@]
    /\ deferred_requests' = [deferred_requests EXCEPT ![p] = <<>>]
    /\ rd' = [rd EXCEPT ![p] = time[p]]
    /\ dec' = [a \in Peers |-> [b \in Peers |->
                  IF a = p \/ b = p THEN NoDec ELSE dec[a][b]]]
    /\ pc' = [pc EXCEPT ![p] = "rel_inc"]
    /\ UNCHANGED <<time, request_timestamp, request_number, replies_received,
                   envVars, prints_left, idx, localVars, rpc, prn, ps_time,
                   counted, ck, cmp, issued>>

\* release_critical_section, first half of the locked block: requesting = False,
\* the queue is copied and emptied, and clock.increment() has read clock.time.
StartRelease(p) ==
    /\ pc[p] = "release"
    /\ lock[p] = 0
    /\ lock' = [lock EXCEPT ![p] = p]
    /\ requesting' = [requesting EXCEPT ![p] = FALSE]
    /\ deferred_requests' = [deferred_requests EXCEPT ![p] = <<>>]
    /\ rd' = [rd EXCEPT ![p] = time[p]]
    /\ dec' = [a \in Peers |-> [b \in Peers |->
                  IF a = p \/ b = p THEN NoDec ELSE dec[a][b]]]
    /\ pc' = [pc EXCEPT ![p] = "rel_inc"]
    /\ UNCHANGED <<time, request_timestamp, request_number, replies_received,
                   envVars, prints_left, idx, localVars, rpc, prn, ps_time,
                   counted, ck, cmp, issued>>

\* The loop of release_critical_section moves to the next peer, or returns.
AfterRelease(p, i) == IF i <= Len(other_clients[p]) THEN "rel_send" ELSE "idle"

\* A release_critical_section that broadcasts from inside its locked block.
StampReleaseHoldingLock(p) ==
    /\ pc[p] = "rel_inc"
    /\ time' = [time EXCEPT ![p] = ClockIncrement(rd[p])]
    /\ release_timestamp' = [release_timestamp EXCEPT ![p] = ClockIncrement(rd[p])]
    /\ rd' = [rd EXCEPT ![p] = 0]
    /\ idx' = [idx EXCEPT ![p] = 1]
    /\ pc' = [pc EXCEPT ![p] = AfterRelease(p, 1)]
    /\ UNCHANGED <<peerVars, lock, envVars, prints_left, current_request,
                   current_timestamp, rpc, prn, ps_time, counted, dec, ck, cmp, issued>>

\* release_critical_section, second half of the locked block: the increment is
\* written into release_timestamp and the lock is released.
StampRelease(p) ==
    /\ pc[p] = "rel_inc"
    /\ time' = [time EXCEPT ![p] = ClockIncrement(rd[p])]
    /\ release_timestamp' = [release_timestamp EXCEPT ![p] = ClockIncrement(rd[p])]
    /\ lock' = [lock EXCEPT ![p] = 0]
    /\ rd' = [rd EXCEPT ![p] = 0]
    /\ idx' = [idx EXCEPT ![p] = 1]
    /\ pc' = [pc EXCEPT ![p] = AfterRelease(p, 1)]
    /\ UNCHANGED <<peerVars, envVars, prints_left, current_request,
                   current_timestamp, rpc, prn, ps_time, counted, dec, ck, cmp, issued>>

\* send_release_notification: the ReleaseMessage is built and stub.ReleaseAccess
\* is called.
SendRelease(p) ==
    /\ pc[p] = "rel_send"
    /\ rpc' = [rpc EXCEPT ![p] = [NoRpc EXCEPT !.kind = "rel",
                                               !.tgt = other_clients[p][idx[p]],
                                               !.ts = release_timestamp[p],
                                               !.num = request_number[p],
                                               !.phase = "sent"]]
    /\ pc' = [pc EXCEPT ![p] = "rel_await"]
    /\ UNCHANGED <<time, peerVars, lock, envVars, prints_left, idx, rd, localVars,
                   prn, ps_time, counted, dec, ck, cmp, issued>>

\* send_release_notification: stub.ReleaseAccess returns the acknowledgement.
RecvReleaseAck(p) ==
    /\ pc[p] = "rel_await"
    /\ rpc[p].phase = "resp"
    /\ rpc' = [rpc EXCEPT ![p] = NoRpc]
    /\ idx' = [idx EXCEPT ![p] = @ + 1]
    /\ pc' = [pc EXCEPT ![p] = AfterRelease(p, idx[p] + 1)]
    /\ UNCHANGED <<time, peerVars, lock, envVars, prints_left, rd, localVars,
                   prn, ps_time, counted, dec, ck, cmp, issued>>

\* A release broadcast that gives up at the first failed send.
ReleaseFailedAborting(p) ==
    /\ pc[p] = "rel_await"
    /\ RpcErrorRaised(rpc[p].phase, up[rpc[p].tgt])
    /\ faults_left' = FaultsAfter(up[rpc[p].tgt])
    /\ rpc' = [rpc EXCEPT ![p] = NoRpc]
    /\ idx' = [idx EXCEPT ![p] = @ + 1]
    /\ pc' = [pc EXCEPT ![p] = "idle"]
    /\ UNCHANGED <<time, peerVars, lock, other_clients, up, printer_up, prints_left, rd,
                   localVars, prn, ps_time, counted, dec, ck, cmp, issued>>

\* send_release_notification: stub.ReleaseAccess raises grpc.RpcError; it is
\* logged and the loop goes on.
ReleaseFailed(p) ==
    /\ pc[p] = "rel_await"
    /\ RpcErrorRaised(rpc[p].phase, up[rpc[p].tgt])
    /\ faults_left' = FaultsAfter(up[rpc[p].tgt])
    /\ rpc' = [rpc EXCEPT ![p] = NoRpc]
    /\ idx' = [idx EXCEPT ![p] = @ + 1]
    /\ pc' = [pc EXCEPT ![p] = AfterRelease(p, idx[p] + 1)]
    /\ UNCHANGED <<time, peerVars, lock, other_clients, up, printer_up, prints_left, rd,
                   localVars, prn, ps_time, counted, dec, ck, cmp, issued>>

----------------------------------------------------------------------------
(* The gRPC worker thread that serves the call of peer q at its target.    *)

Served(q, kinds, phase) ==
    /\ rpc[q].kind \in kinds
    /\ rpc[q].phase = phase
    /\ up[rpc[q].tgt]

\* RequestAccess / ReleaseAccess: clock.update(request.lamport_timestamp),
\* before the lock is taken, has read clock.time.
HandlerUpdateRead(q) ==
    /\ Served(q, {"req", "rel"}, "sent")
    /\ rpc' = [rpc EXCEPT ![q].phase = "upd", ![q].hr = time[rpc[q].tgt]]
    /\ UNCHANGED <<time, peerVars, lock, envVars, prints_left, pc, idx, rd,
                   localVars, prn, ps_time, counted, dec, ck, cmp, issued>>

\* RequestAccess / ReleaseAccess: clock.update writes max(read, timestamp) + 1.
HandlerUpdateWrite(q) ==
    /\ Served(q, {"req", "rel"}, "upd")
    /\ time' = [time EXCEPT ![rpc[q].tgt] = ClockUpdate(rpc[q].hr, rpc[q].ts)]
    /\ rpc' = [rpc EXCEPT ![q].phase = "lock", ![q].hr = 0]
    /\ UNCHANGED <<peerVars, lock, envVars, prints_left, pc, idx, rd, localVars,
                   prn, ps_time, counted, dec, ck, cmp, issued>>

\* A RequestAccess that gives up the receiver's own request when it grants.
RequestAccessDecideYielding(q) ==
    /\ Served(q, {"req"}, "lock")
    /\ LET t == rpc[q].tgt
           g == ShouldGrant(requesting[t], request_timestamp[t], t, rpc[q].ts, q)
       IN /\ lock[t] = 0
          /\ lock' = [lock EXCEPT ![t] = q]
          /\ requesting' = [requesting EXCEPT ![t] = IF g THEN FALSE ELSE @]
          /\ deferred_requests' = [deferred_requests EXCEPT ![t] =
                                      IF g THEN @ ELSE Append(@, <<q, rpc[q].ts>>)]
          /\ rpc' = [rpc EXCEPT ![q].phase = "inc", ![q].granted = g,
                                ![q].hr = time[t]]
          /\ dec' = [dec EXCEPT ![t][q] =
                        [made |-> TRUE, granted |-> g,
                         was_requesting |-> requesting[t],
                         own_ts |-> request_timestamp[t],
                         own_num |-> request_number[t],
                         ts |-> rpc[q].ts, num |-> rpc[q].num]]
    /\ UNCHANGED <<time, request_timestamp, request_number,
                   replies_received, envVars, prints_left, pc, idx, rd, localVars,
                   prn, ps_time, counted, ck, cmp, issued>>

\* RequestAccess, first half of the locked block: the decision is taken, a
\* deferred request is appended to the queue, and clock.increment() has read
\* clock.time.
RequestAccessDecide(q) ==
    /\ Served(q, {"req"}, "lock")
    /\ LET t == rpc[q].tgt
           g == ShouldGrant(requesting[t], request_timestamp[t], t, rpc[q].ts, q)
       IN /\ lock[t] = 0
          /\ lock' = [lock EXCEPT ![t] = q]
          /\ deferred_requests' = [deferred_requests EXCEPT ![t] =
                                      IF g THEN @ ELSE Append(@, <<q, rpc[q].ts>>)]
          /\ rpc' = [rpc EXCEPT ![q].phase = "inc", ![q].granted = g,
                                ![q].hr = time[t]]
          /\ dec' = [dec EXCEPT ![t][q] =
                        [made |-> TRUE, granted |-> g,
                         was_requesting |-> requesting[t],
                         own_ts |-> request_timestamp[t],
                         own_num |-> request_number[t],
                         ts |-> rpc[q].ts, num |-> rpc[q].num]]
    /\ UNCHANGED <<time, requesting, request_timestamp, request_number,
                   replies_received, envVars, prints_left, pc, idx, rd, localVars,
                   prn, ps_time, counted, ck, cmp, issued>>

\* A handler that keeps a deferred caller waiting until the peer has released.
RequestAccessRespondAfterRelease(q) ==
    /\ Served(q, {"req"}, "inc")
    /\ rpc[q].granted \/ ~requesting[rpc[q].tgt]
    /\ time' = [time EXCEPT ![rpc[q].tgt] = ClockIncrement(rpc[q].hr)]
    /\ lock' = [lock EXCEPT ![rpc[q].tgt] = 0]
    /\ rpc' = [rpc EXCEPT ![q].phase = "resp", ![q].hr = 0,
                          ![q].rts = ClockIncrement(rpc[q].hr)]
    /\ UNCHANGED <<peerVars, envVars, prints_left, pc, idx, rd, localVars, prn,
                   ps_time, counted, dec, ck, cmp, issued>>

\* RequestAccess, second half of the locked block: the increment is written and
\* returned as the AccessResponse's timestamp; the lock is released.
RequestAccessRespond(q) ==
    /\ Served(q, {"req"}, "inc")
    /\ time' = [time EXCEPT ![rpc[q].tgt] = ClockIncrement(rpc[q].hr)]
    /\ lock' = [lock EXCEPT ![rpc[q].tgt] = 0]
    /\ rpc' = [rpc EXCEPT ![q].phase = "resp", ![q].hr = 0,
                          ![q].rts = ClockIncrement(rpc[q].hr)]
    /\ UNCHANGED <<peerVars, envVars, prints_left, pc, idx, rd, localVars, prn,
                   ps_time, counted, dec, ck, cmp, issued>>

\* A release handler that counts the release as a reply to the receiver's own
\* request.
ReleaseAccessLockCounting(q) ==
    /\ Served(q, {"rel"}, "lock")
    /\ lock[rpc[q].tgt] = 0
    /\ lock' = [lock EXCEPT ![rpc[q].tgt] = q]
    /\ replies_received' = [replies_received EXCEPT ![rpc[q].tgt] = @ + 1]
    /\ rpc' = [rpc EXCEPT ![q].phase = "inc", ![q].hr = time[rpc[q].tgt]]
    /\ UNCHANGED <<time, requesting, request_timestamp, request_number,
                   deferred_requests, envVars, prints_left, pc, idx, rd, localVars,
                   prn, ps_time, counted, dec, ck, cmp, issued>>

\* ReleaseAccess, first half of the locked block: clock.increment() has read
\* clock.time.
ReleaseAccessLock(q) ==
    /\ Served(q, {"rel"}, "lock")
    /\ lock[rpc[q].tgt] = 0
    /\ lock' = [lock EXCEPT ![rpc[q].tgt] = q]
    /\ rpc' = [rpc EXCEPT ![q].phase = "inc", ![q].hr = time[rpc[q].tgt]]
    /\ UNCHANGED <<time, peerVars, envVars, prints_left, pc, idx, rd, localVars,
                   prn, ps_time, counted, dec, ck, cmp, issued>>

\* ReleaseAccess, second half of the locked block: the increment is written and
\* ReleaseResponse(acknowledged=True) is returned.
ReleaseAccessRespond(q) ==
    /\ Served(q, {"rel"}, "inc")
    /\ time' = [time EXCEPT ![rpc[q].tgt] = ClockIncrement(rpc[q].hr)]
    /\ lock' = [lock EXCEPT ![rpc[q].tgt] = 0]
    /\ rpc' = [rpc EXCEPT ![q].phase = "resp", ![q].hr = 0, ![q].granted = TRUE]
    /\ UNCHANGED <<peerVars, envVars, prints_left, pc, idx, rd, localVars, prn,
                   ps_time, counted, dec, ck, cmp, issued>>

----------------------------------------------------------------------------
(* print_server.py: the worker thread that serves the print of peer p.     *)

\* SendToPrinter: self.clock.update(request.lamport_timestamp) has read the
\* server's clock.
PrintServerUpdateRead(p) ==
    /\ printer_up
    /\ prn[p].phase = "sent"
    /\ prn' = [prn EXCEPT ![p].phase = "upd", ![p].hr = ps_time]
    /\ UNCHANGED <<time, peerVars, lock, envVars, prints_left, pc, idx, rd,
                   localVars, rpc, ps_time, counted, dec, ck, cmp, issued>>

\* SendToPrinter: clock.update writes; the server then sleeps for the print.
PrintServerUpdateWrite(p) ==
    /\ prn[p].phase = "upd"
    /\ ps_time' = ClockUpdate(prn[p].hr, prn[p].ts)
    /\ prn' = [prn EXCEPT ![p].phase = "printing", ![p].hr = 0]
    /\ UNCHANGED <<time, peerVars, lock, envVars, prints_left, pc, idx, rd,
                   localVars, rpc, counted, dec, ck, cmp, issued>>

\* SendToPrinter: response_timestamp = self.clock.increment() has read the
\* server's clock.
PrintServerIncRead(p) ==
    /\ prn[p].phase = "printing"
    /\ prn' = [prn EXCEPT ![p].phase = "inc", ![p].hr = ps_time]
    /\ UNCHANGED <<time, peerVars, lock, envVars, prints_left, pc, idx, rd,
                   localVars, rpc, ps_time, counted, dec, ck, cmp, issued>>

\* SendToPrinter: the increment is written and returned in the PrintResponse.
PrintServerRespond(p) ==
    /\ prn[p].phase = "inc"
    /\ ps_time' = ClockIncrement(prn[p].hr)
    /\ prn' = [prn EXCEPT ![p].phase = "resp", ![p].hr = 0,
                          ![p].rts = ClockIncrement(prn[p].hr)]
    /\ UNCHANGED <<time, peerVars, lock, envVars, prints_left, pc, idx, rd,
                   localVars, rpc, counted, dec, ck, cmp, issued>>

----------------------------------------------------------------------------
(* The system.                                                              *)

Workload(p) ==
    \/ StartRequest(p)
    \/ StampRequest(p)
    \/ SendAccessRequest(p)
    \/ RequestFailed(p)
    \/ RecvAccessResponse(p)
    \/ UpdateFromResponse(p)
    \/ CountReply(p)
    \/ CountFailed(p)
    \/ PollQuorum(p)
    \/ PrinterIncRead(p)
    \/ SendToPrinter(p)
    \/ PrintFailed(p)
    \/ RecvPrintResponse(p)
    \/ UpdateFromPrint(p)
    \/ StartRelease(p)
    \/ StampRelease(p)
    \/ SendRelease(p)
    \/ RecvReleaseAck(p)
    \/ ReleaseFailed(p)

Worker(q) ==
    \/ HandlerUpdateRead(q)
    \/ HandlerUpdateWrite(q)
    \/ RequestAccessDecide(q)
    \/ RequestAccessRespond(q)
    \/ ReleaseAccessLock(q)
    \/ ReleaseAccessRespond(q)

PrintServer(p) ==
    \/ PrintServerUpdateRead(p)
    \/ PrintServerUpdateWrite(p)
    \/ PrintServerIncRead(p)
    \/ PrintServerRespond(p)

Next ==
    \E p \in Peers : Workload(p) \/ Worker(p) \/ PrintServer(p)

AllPeers(n) == [p \in Peers |-> n]

OnlyPeers(S, n) == [p \in Peers |-> IF p \in S THEN n ELSE 0]

\* Two configured peers, both running, each with up to MaxPrints documents to
\* print, on a network that raises up to MaxFaults transport errors.
Init ==
    /\ \E n \in [Peers -> 0..MaxPrints] :
           InitWith({1, 2}, {1, 2}, TRUE, n, ZeroClocks, MaxFaults)
    /\ ck = NoCk
    /\ cmp = NoCmp

Spec == Init /\ [][Next]_vars

----------------------------------------------------------------------------
(* The default configuration of client.py with peer 3 not running: every    *)
(* call to it raises grpc.RpcError.  The print server runs or does not.      *)

InitDown ==
    /\ \E n \in [Peers -> 0..MaxPrints], pu \in BOOLEAN :
           InitWith(Peers, {1, 2}, pu, n, ZeroClocks, 0)
    /\ ck = NoCk
    /\ cmp = NoCmp

SpecDown == InitDown /\ [][Next]_vars

----------------------------------------------------------------------------
(* One LamportClock, constructed with some initial_time, and one caller that *)
(* calls increment() and update(x) one after another.                        *)

ClockCallIncrement ==
    /\ ck.time < MaxHarnessTime
    /\ ck' = [time |-> ClockIncrement(ck.time), prev |-> ck.time,
              op |-> "increment", arg |-> 0, ret |-> ClockIncrement(ck.time)]
    /\ UNCHANGED <<time, peerVars, lock, envVars, prints_left, pc, idx, rd,
                   localVars, rpc, prn, ps_time, counted, dec, cmp, issued>>

ClockCallUpdate ==
    /\ ck.time < MaxHarnessTime
    /\ \E x \in 0..MaxReceived :
           ck' = [time |-> ClockUpdate(ck.time, x), prev |-> ck.time,
                  op |-> "update", arg |-> x, ret |-> ClockUpdate(ck.time, x)]
    /\ UNCHANGED <<time, peerVars, lock, envVars, prints_left, pc, idx, rd,
                   localVars, rpc, prn, ps_time, counted, dec, cmp, issued>>

NextClock == ClockCallIncrement \/ ClockCallUpdate

InitClock ==
    /\ InitWith({}, {}, FALSE, AllPeers(0), ZeroClocks, 0)
    /\ cmp = NoCmp
    /\ \E t \in 0..MaxStartClock : ck = [NoCk EXCEPT !.time = t]

SpecClock == InitClock /\ [][NextClock]_vars

\* The caller reads the clock with get_time(): clock.time is not assigned.
ClockCallGetTime ==
    /\ ck' = [time |-> ck.time, prev |-> ck.time,
              op |-> "get_time", arg |-> 0, ret |-> GetTime(ck.time)]
    /\ UNCHANGED <<time, peerVars, lock, envVars, prints_left, pc, idx, rd,
                   localVars, rpc, prn, ps_time, counted, dec, cmp, issued>>

NextClockRead == ClockCallIncrement \/ ClockCallUpdate \/ ClockCallGetTime

SpecClockRead == InitClock /\ [][NextClockRead]_vars

----------------------------------------------------------------------------
(* The comparison of RequestAccess, applied to every pair of three requests  *)
(* (timestamp, client id).                                                   *)

Requests == (0..MaxStamp) \X Peers

InitOrder ==
    /\ InitWith({}, {}, FALSE, AllPeers(0), ZeroClocks, 0)
    /\ ck = NoCk
    /\ \E r1 \in Requests, r2 \in Requests, r3 \in Requests :
           cmp = [NoCmp EXCEPT !.r = <<r1, r2, r3>>]

CompareRequests ==
    /\ ~cmp.done
    /\ cmp' = [cmp EXCEPT !.done = TRUE,
                          !.less = [i \in 1..3 |-> [j \in 1..3 |->
                                       TupleLess(cmp.r[i], cmp.r[j])]]]
    /\ UNCHANGED <<time, peerVars, lock, envVars, prints_left, pc, idx, rd,
                   localVars, rpc, prn, ps_time, counted, dec, ck, issued>>

SpecOrder == InitOrder /\ [][CompareRequests]_vars

----------------------------------------------------------------------------
(* Scheduling.  Every thread that can take a step eventually takes one: the  *)
(* workload thread of a peer, the gRPC worker serving a call, the print      *)
(* server's worker.  An outbound call carries a timeout, so a call that is   *)
(* never served eventually raises grpc.RpcError (a step of the workload).    *)

Fairness ==
    \A p \in Peers :
        /\ WF_vars(Workload(p))
        /\ WF_vars(Worker(p))
        /\ WF_vars(PrintServer(p))

\* Peer 3 does not run.  The print server runs in the runs where peer 1 alone
\* prints, and is down where peers 1 and 2 both may.
InitFair ==
    /\ \E n \in [Peers -> 0..MaxPrints], pu \in BOOLEAN :
           /\ pu => n[2] = 0
           /\ InitWith(Peers, {1, 2}, pu, n, ZeroClocks, 0)
    /\ ck = NoCk
    /\ cmp = NoCmp

FairSpec == InitFair /\ [][Next]_vars /\ Fairness

\* The positions of the workload thread inside request_critical_section.
RequestPcs == {"req_inc", "send", "await", "resp_upd", "count", "count_err", "poll"}

\* The positions between the return of request_critical_section and the start
\* of release_critical_section.
CriticalPcs == {"cs", "prt_inc", "prt_await", "prt_upd", "release"}

InCriticalSection(p) == pc[p] \in CriticalPcs

----------------------------------------------------------------------------
(* The race: three running peers whose clocks earlier traffic has advanced   *)
(* to TieStamp - 1 (peers 1 and 2) and LateStamp - 1 (peer 3) each request   *)
(* once, so the requests are (TieStamp, 1), (TieStamp, 2), (LateStamp, 3).   *)
(* The runs are followed up to the return of request_critical_section.       *)

RaceClocks == [p \in Peers |-> IF p = 3 THEN LateStamp - 1 ELSE TieStamp - 1]

InitRace ==
    /\ InitWith(Peers, Peers, TRUE, AllPeers(1), RaceClocks, 0)
    /\ ck = NoCk
    /\ cmp = NoCmp

\* The same with peers 1 and 2 alone configured.
InitTie ==
    /\ InitWith({1, 2}, {1, 2}, TRUE, OnlyPeers({1, 2}, 1), RaceClocks, 0)
    /\ ck = NoCk
    /\ cmp = NoCmp

RequestPhase(p) ==
    \/ StartRequest(p)
    \/ StampRequest(p)
    \/ RecvAccessResponse(p)
    \/ UpdateFromResponse(p)
    \/ CountReply(p)
    \/ PollQuorum(p)
    \/ HandlerUpdateRead(p)
    \/ HandlerUpdateWrite(p)
    \/ RequestAccessDecide(p)
    \/ RequestAccessRespond(p)

NextTie ==
    \E p \in Peers : SendAccessRequest(p) \/ RequestPhase(p)

SpecTie == InitTie /\ [][NextTie]_vars

\* The same runs under fair scheduling of the threads: no peer ever releases,
\* each stays at its critical section once it has reached it.
FairnessTie == \A p \in Peers : WF_vars(SendAccessRequest(p) \/ RequestPhase(p))

FairTie == InitTie /\ [][NextTie]_vars /\ FairnessTie

\* The calls that are under way.
InFlight == Cardinality({q \in Peers : rpc[q].kind # "none"})

\* With three peers the runs explored are those with at most MaxInFlight
\* RequestAccess calls under way at a time.
SendAccessRequestInTurn(p) ==
    /\ InFlight < MaxInFlight
    /\ SendAccessRequest(p)

NextRace ==
    \E p \in Peers : SendAccessRequestInTurn(p) \/ RequestPhase(p)

SpecRace == InitRace /\ [][NextRace]_vars

----------------------------------------------------------------------------
(* The first configured peer is down: peers 2 and 3 run and each prints one  *)
(* document while peer 1 and the print server are unreachable, so that every *)
(* broadcast of peers 2 and 3 starts with a send that fails.                 *)

InitFirstDown ==
    /\ InitWith(Peers, {2, 3}, FALSE, OnlyPeers({2, 3}, 1), ZeroClocks, 0)
    /\ ck = NoCk
    /\ cmp = NoCmp

----------------------------------------------------------------------------
(* A peer that prints several documents in a row while the print server is   *)
(* down, next to a peer whose first RequestAccess call is under way: peer 1  *)
(* runs up to MaxCycles cycles of print_document, peer 2 starts one request, *)
(* and the runs are followed while peer 2's call has not returned to it.     *)

InitStale ==
    /\ InitWith({1, 2}, {1, 2}, FALSE,
                [p \in Peers |-> IF p = 1 THEN MaxCycles ELSE IF p = 2 THEN 1 ELSE 0],
                ZeroClocks, 0)
    /\ ck = NoCk
    /\ cmp = NoCmp

\* print_document with every peer answering and the print server unreachable.
CycleOffline(p) ==
    \/ StartRequest(p)
    \/ StampRequest(p)
    \/ SendAccessRequest(p)
    \/ RecvAccessResponse(p)
    \/ UpdateFromResponse(p)
    \/ CountReply(p)
    \/ PollQuorum(p)
    \/ PrinterIncRead(p)
    \/ SendToPrinter(p)
    \/ PrintFailed(p)
    \/ StartRelease(p)
    \/ StampRelease(p)
    \/ SendRelease(p)
    \/ RecvReleaseAck(p)

NextStale ==
    \/ CycleOffline(1)
    \/ StartRequest(2) \/ StampRequest(2) \/ SendAccessRequest(2)
    \/ \E q \in Peers : Worker(q)

SpecStale == InitStale /\ [][NextStale]_vars

\* The same two peers on a network that raises up to MaxFaults transport
\* errors on peer 1's calls: a call of peer 1 can be served by peer 2 and still
\* end in grpc.RpcError at peer 1.
InitLost ==
    /\ InitWith({1, 2}, {1, 2}, FALSE,
                [p \in Peers |-> IF p = 1 THEN MaxCycles ELSE IF p = 2 THEN 1 ELSE 0],
                ZeroClocks, MaxFaults)
    /\ ck = NoCk
    /\ cmp = NoCmp

NextLost ==
    \/ NextStale
    \/ RequestFailed(1)
    \/ CountFailed(1)
    \/ ReleaseFailed(1)

SpecLost == InitLost /\ [][NextLost]_vars

NextFirstDown ==
    \E p \in Peers :
        \/ CycleOffline(p)
        \/ RequestFailed(p)
        \/ CountFailed(p)
        \/ ReleaseFailed(p)
        \/ Worker(p)

SpecFirstDown == InitFirstDown /\ [][NextFirstDown]_vars

----------------------------------------------------------------------------
(* A peer constructed with other_clients = []: peer 1 alone, printing up to  *)
(* MaxCycles documents on a print server that runs or does not.              *)

InitSolo ==
    /\ \E n \in 0..MaxCycles, pu \in BOOLEAN :
           InitWith({1}, {1}, pu, OnlyPeers({1}, n), ZeroClocks, MaxFaults)
    /\ ck = NoCk
    /\ cmp = NoCmp

\* print_document when both loops over other_clients are empty.
CycleAlone(p) ==
    \/ StartRequest(p)
    \/ StampRequest(p)
    \/ PollQuorum(p)
    \/ PrinterIncRead(p)
    \/ SendToPrinter(p)
    \/ PrintFailed(p)
    \/ RecvPrintResponse(p)
    \/ UpdateFromPrint(p)
    \/ StartRelease(p)
    \/ StampRelease(p)

NextSolo == CycleAlone(1) \/ PrintServer(1)

SpecSolo == InitSolo /\ [][NextSolo]_vars

----------------------------------------------------------------------------
(* release_critical_section called on a peer that is not requesting: peers  *)
(* 1 and 2 print up to MaxPrints documents each while the print server is    *)
(* down, and peer 1's caller also calls release_critical_section between     *)
(* documents, as long as its clock is below MaxIdleClock.                    *)

CallReleaseIdle(p) ==
    /\ pc[p] = "idle"
    /\ time[p] < MaxIdleClock
    /\ pc' = [pc EXCEPT ![p] = "release"]
    /\ UNCHANGED <<time, peerVars, lock, envVars, prints_left, idx, rd, localVars,
                   rpc, prn, ps_time, counted, dec, ck, cmp, issued>>

InitIdle ==
    /\ \E n \in [Peers -> 0..MaxPrints] :
           InitWith({1, 2}, {1, 2}, FALSE, n, ZeroClocks, 0)
    /\ ck = NoCk
    /\ cmp = NoCmp

NextIdle ==
    \/ CallReleaseIdle(1)
    \/ \E p \in Peers : CycleOffline(p) \/ Worker(p)

SpecIdle == InitIdle /\ [][NextIdle]_vars

\* The positions of the workload thread inside release_critical_section.
ReleasePcs == {"release", "rel_inc", "rel_send", "rel_await"}

----------------------------------------------------------------------------
(* Properties.                                                              *)

Holds(queue, entry) == \E i \in 1..Len(queue) : queue[i] = entry

Outcomes(p) == {counted[p][i] : i \in 1..Len(counted[p])}

\* C1: in every reachable state at most one peer is in its critical section
\* (between the return of request_critical_section and the start of
\* release_critical_section).
MutualExclusion ==
    Cardinality({p \in Peers : InCriticalSection(p)}) <= 1

\* C2: under fair scheduling, with every outbound call answered or failed,
\* every call of request_critical_section eventually returns: a peer inside it
\* eventually stands at its critical section.
DeadlockFreedom ==
    \A p \in Peers : (pc[p] \in RequestPcs) ~> (pc[p] = "cs")

\* C2's case: peer 2 has returned from request_critical_section, its request
\* deferred by peer 1 and its call to peer 3 failed, while peer 1 is still
\* inside its own request_critical_section.
DeadlockFreedomWitness ==
    /\ pc[2] = "cs"
    /\ <<1, "defer">> \in Outcomes(2)
    /\ <<3, "error">> \in Outcomes(2)
    /\ pc[1] \in RequestPcs

\* C3: a failed RequestAccess call adds exactly one to replies_received, and
\* the requester arrives at its wait with the quorum reached, also when a
\* configured peer never answers.
FailOpen ==
    [][\A p \in Peers :
          /\ (pc[p] = "count_err" /\ pc'[p] # "count_err")
                => replies_received'[p] = replies_received[p] + 1
          /\ pc'[p] = "poll"
                => replies_received'[p] >= Len(other_clients'[p])]_vars

\* C3's case: peer 1 has entered its critical section although its call to
\* peer 3, which does not run, failed.
FailOpenWitness ==
    /\ ~up[3]
    /\ pc[1] = "cs"
    /\ <<3, "error">> \in Outcomes(1)

DecisionRule ==
    [][\A q \in Peers :
          LET t == rpc[q].tgt
              below == \/ rpc[q].ts < request_timestamp[t]
                       \/ rpc[q].ts = request_timestamp[t] /\ q < t
              grant == ~requesting[t] \/ below
          IN /\ (rpc[q].kind = "req" /\ rpc[q].phase = "lock" /\ rpc'[q].phase = "inc")
                   => /\ rpc'[q].granted = grant
                      /\ grant => deferred_requests'[t] = deferred_requests[t]
                      /\ ~grant => deferred_requests'[t] =
                                       Append(deferred_requests[t], <<q, rpc[q].ts>>)
             /\ (rpc[q].kind = "req" /\ rpc[q].phase = "inc" /\ rpc'[q].phase = "resp")
                   => /\ rpc'[q].granted = rpc[q].granted
                      /\ deferred_requests' = deferred_requests]_vars

\* C5's case: peer 1, requesting, has deferred peer 2's request and peer 2,
\* requesting, has granted peer 1's.
DecisionWitness ==
    /\ dec[1][2].made /\ dec[1][2].was_requesting /\ ~dec[1][2].granted
    /\ dec[2][1].made /\ dec[2][1].was_requesting /\ dec[2][1].granted
    /\ Holds(deferred_requests[1], <<2, dec[1][2].ts>>)

\* Peer a has decided on b's request (stamp tb) while requesting with stamp ta.
Decided(a, ta, b, tb) ==
    /\ dec[a][b].made
    /\ dec[a][b].was_requesting
    /\ dec[a][b].own_ts = ta
    /\ dec[a][b].ts = tb

\* C6 as claimed: in the tie (TieStamp, 1) against (TieStamp, 2), peer 2 defers
\* peer 1's request and queues it, and peer 1 grants peer 2's request.
TwoPeerTieAsClaimed ==
    /\ Decided(2, TieStamp, 1, TieStamp)
          => ~dec[2][1].granted /\ Holds(deferred_requests[2], <<1, TieStamp>>)
    /\ Decided(1, TieStamp, 2, TieStamp) => dec[1][2].granted

\* C6, amended: in the tie (TieStamp, 1) against (TieStamp, 2), peer 2 grants
\* peer 1's request and queues nothing, and peer 1 defers peer 2's request,
\* queues it and answers access_granted = false.
TwoPeerTie ==
    /\ Decided(2, TieStamp, 1, TieStamp)
          => dec[2][1].granted /\ ~Holds(deferred_requests[2], <<1, TieStamp>>)
    /\ Decided(1, TieStamp, 2, TieStamp)
          => ~dec[1][2].granted /\ Holds(deferred_requests[1], <<2, TieStamp>>)

\* C6's case: each of the two peers has handled the other's request of stamp
\* TieStamp while requesting with stamp TieStamp.
TwoPeerTieWitness ==
    /\ Decided(2, TieStamp, 1, TieStamp)
    /\ Decided(1, TieStamp, 2, TieStamp)

\* C7 as claimed: with (TieStamp, 1), (TieStamp, 2), (LateStamp, 3) outstanding
\* and all three peers requesting, peer 1's request is granted by peers 2 and
\* 3, peer 2 yields to peer 1 but grants peer 3's request, and peer 3 yields to
\* peers 1 and 2 (grants both their requests).
ThreePeerRaceAsClaimed ==
    /\ Decided(2, TieStamp, 1, TieStamp) => dec[2][1].granted
    /\ Decided(3, LateStamp, 1, TieStamp) => dec[3][1].granted
    /\ Decided(2, TieStamp, 3, LateStamp) => dec[2][3].granted
    /\ Decided(3, LateStamp, 2, TieStamp) => dec[3][2].granted

\* C7, amended: peer 1's request is granted by peers 2 and 3; peer 2 grants
\* peer 1's request and defers peer 3's; peer 3 grants the requests of peers 1
\* and 2; peer 1 defers the requests of peers 2 and 3.
ThreePeerRace ==
    /\ Decided(2, TieStamp, 1, TieStamp) => dec[2][1].granted
    /\ Decided(3, LateStamp, 1, TieStamp) => dec[3][1].granted
    /\ Decided(2, TieStamp, 3, LateStamp)
          => ~dec[2][3].granted /\ Holds(deferred_requests[2], <<3, LateStamp>>)
    /\ Decided(3, LateStamp, 2, TieStamp) => dec[3][2].granted
    /\ Decided(1, TieStamp, 2, TieStamp)
          => ~dec[1][2].granted /\ Holds(deferred_requests[1], <<2, TieStamp>>)
    /\ Decided(1, TieStamp, 3, LateStamp)
          => ~dec[1][3].granted /\ Holds(deferred_requests[1], <<3, LateStamp>>)

\* C7's case: the three requests have been delivered to all nodes, each
\* handled by a peer that was requesting.
ThreePeerRaceWitness ==
    /\ Decided(2, TieStamp, 1, TieStamp)
    /\ Decided(3, LateStamp, 1, TieStamp)
    /\ Decided(2, TieStamp, 3, LateStamp)
    /\ Decided(3, LateStamp, 2, TieStamp)
    /\ Decided(1, TieStamp, 2, TieStamp)
    /\ Decided(1, TieStamp, 3, LateStamp)

\* C8: when two peers each decide on the other's current request while
\* requesting, exactly one of the two grants.
ConsistentArbitration ==
    \A a, b \in Peers :
        ( /\ a # b
          /\ dec[a][b].made /\ dec[a][b].was_requesting
          /\ dec[b][a].made /\ dec[b][a].was_requesting
          /\ dec[a][b].num = dec[b][a].own_num
          /\ dec[b][a].num = dec[a][b].own_num )
        => dec[a][b].granted # dec[b][a].granted

\* C8's case: peers 1 and 2 have each decided on the other's current request
\* while requesting.
ArbitrationWitness ==
    /\ dec[1][2].made /\ dec[1][2].was_requesting
    /\ dec[2][1].made /\ dec[2][1].was_requesting
    /\ dec[1][2].num = dec[2][1].own_num
    /\ dec[2][1].num = dec[1][2].own_num

\* C9: update(x) at time t sets and returns max(t, x) + 1; increment() at time
\* t sets and returns t + 1.
ClockArithmetic ==
    /\ ck.op = "update"
          => /\ ck.prev >= ck.arg => ck.time = ck.prev + 1
             /\ ck.prev < ck.arg => ck.time = ck.arg + 1
             /\ ck.ret = ck.time
    /\ ck.op = "increment"
          => ck.time = ck.prev + 1 /\ ck.ret = ck.time

\* C9's case: an update with a received value above the clock, after an
\* earlier call.
ClockArithmeticWitness ==
    ck.op = "update" /\ ck.arg > ck.prev /\ ck.prev > 0

\* C10: on every call of increment() or update(x) the clock's value after the
\* call is strictly greater than before it (so it never decreases).
ClockStrictlyIncreases ==
    [][ck'.time > ck.time]_vars

\* C10's case: an update with a received value below the clock's, which must
\* still advance it.
ClockIncreaseWitness ==
    ck.op = "update" /\ ck.arg < ck.prev /\ ck.time > ck.prev

\* C11: get_time() returns the clock's current value and leaves the clock's
\* time as it was.
GetTimeReadOnly ==
    [][ck'.op = "get_time" => ck'.time = ck.time /\ ck'.ret = ck.time]_vars

\* C11's case: get_time() called on a clock that earlier calls have advanced.
GetTimeWitness ==
    ck.op = "get_time" /\ ck.time > 0 /\ ck.ret = ck.time

\* C12: TupleLess(r1, r2) is t1 < t2 or (t1 = t2 and p1 < p2); it is
\* irreflexive and transitive, and of two requests with distinct ids exactly one
\* is below the other.
StrictTotalOrder ==
    cmp.done =>
        \A i, j, k \in 1..3 :
            LET ri == cmp.r[i]
                rj == cmp.r[j]
            IN /\ cmp.less[i][j] <=>
                      (ri[1] < rj[1] \/ (ri[1] = rj[1] /\ ri[2] < rj[2]))
               /\ ~cmp.less[i][i]
               /\ (cmp.less[i][j] /\ cmp.less[j][k]) => cmp.less[i][k]
               /\ ri[2] # rj[2] => (cmp.less[i][j] <=> ~cmp.less[j][i])

\* C12's case: two requests with the same timestamp and distinct ids, and a
\* third one above both, have been compared.
StrictTotalOrderWitness ==
    /\ cmp.done
    /\ cmp.r[1][1] = cmp.r[2][1] /\ cmp.r[1][2] < cmp.r[2][2]
    /\ cmp.less[1][2] /\ cmp.less[2][3] /\ cmp.less[1][3]

\* C13: no two distinct requests ever issued have equal (request_timestamp,
\* client_id) records: the stamps a peer has issued are pairwise different
\* (requests of different peers differ in the id).
UniqueRequestRecords ==
    \A p \in Peers : \A i, j \in 1..Len(issued[p]) :
        i # j => issued[p][i] # issued[p][j]

\* C14: a peer configured with no other peers never has a RequestAccess call
\* under way, and at its quorum check the check passes: the step of the wait
\* loop takes it to the critical section and cannot leave it waiting.
SinglePeerQuorum ==
    \A p \in Peers :
        (up[p] /\ Len(other_clients[p]) = 0) =>
            /\ rpc[p] = NoRpc
            /\ pc[p] \notin {"send", "await", "resp_upd", "count", "count_err"}
            /\ pc[p] = "poll" =>
                   /\ ENABLED (PollQuorum(p) /\ pc'[p] = "cs")
                   /\ ~ENABLED (PollQuorum(p) /\ pc'[p] = "poll")

\* C14's case: the lone peer 1 stands at its critical section in its second
\* cycle, having counted no reply.
SinglePeerWitness ==
    /\ other_clients[1] = <<>>
    /\ pc[1] = "cs"
    /\ request_number[1] = 2
    /\ replies_received[1] = 0 /\ counted[1] = <<>>

\* C15: every step taken while a peer that is not requesting is inside
\* release_critical_section leaves requesting false and the deferred queue
\* empty, and leaves request_timestamp, request_number and replies_received as
\* they were.
NoopReleaseSafe ==
    [][\A p \in Peers :
          (pc[p] \in ReleasePcs /\ ~requesting[p]) =>
              /\ ~requesting'[p]
              /\ deferred_requests'[p] = <<>>
              /\ request_timestamp'[p] = request_timestamp[p]
              /\ request_number'[p] = request_number[p]
              /\ replies_received'[p] = replies_received[p]]_vars

\* C15's case: peer 1 is back from a release_critical_section that it called
\* without ever having requested, its clock advanced.
NoopReleaseWitness ==
    /\ pc[1] = "idle"
    /\ request_number[1] = 0
    /\ release_timestamp[1] > 0 /\ time[1] >= release_timestamp[1]
    /\ ~requesting[1] /\ deferred_requests[1] = <<>>

\* C16: every RequestAccess call that reaches a running peer is answered, also
\* in runs where that peer never releases; once the response is there the
\* handler does nothing more on the call, and the decision in it is the one
\* taken under the lock.
AnsweredAtOnce ==
    /\ \A q \in Peers :
           (rpc[q].kind = "req" /\ rpc[q].phase = "sent")
               ~> (rpc[q].kind = "req" /\ rpc[q].phase = "resp")
    /\ [][\A q \in Peers :
             (rpc[q].kind = "req" /\ rpc[q].phase = "resp") =>
                 /\ rpc'[q] = rpc[q] \/ rpc'[q] = NoRpc
                 /\ dec[rpc[q].tgt][q].made
                 /\ dec[rpc[q].tgt][q].granted = rpc[q].granted]_vars

\* C16's case: peer 2's request has been answered with a deferral while peer 1
\* is at its critical section, which in these runs it never leaves.
AnsweredAtOnceWitness ==
    /\ rpc[2].kind = "req" /\ rpc[2].phase = "resp" /\ ~rpc[2].granted
    /\ requesting[1] /\ pc[1] = "cs"

\* C17: every step of the handler of a ReleaseAccess call leaves the
\* receiver's requesting, request_timestamp, request_number, replies_received
\* and deferred queue as they were, and the response it returns has
\* acknowledged = true.
ReleaseHandlerFrame ==
    [][\A q \in Peers :
          (rpc[q].kind = "rel" /\ rpc'[q].kind = "rel" /\ rpc'[q].phase # rpc[q].phase) =>
              LET t == rpc[q].tgt
              IN /\ requesting'[t] = requesting[t]
                 /\ request_timestamp'[t] = request_timestamp[t]
                 /\ request_number'[t] = request_number[t]
                 /\ replies_received'[t] = replies_received[t]
                 /\ deferred_requests'[t] = deferred_requests[t]
                 /\ rpc'[q].phase = "resp" => rpc'[q].granted]_vars

\* C17's case: peer 2, requesting and holding a deferred request of peer 1 in
\* its queue, has acknowledged peer 1's release.
ReleaseHandlerWitness ==
    /\ rpc[1].kind = "rel" /\ rpc[1].phase = "resp" /\ rpc[1].granted
    /\ requesting[2]
    /\ \E i \in 1..Len(deferred_requests[2]) : deferred_requests[2][i][1] = 1

\* C18: a thread that is inside a clock operation (it has read clock.time and
\* has not yet assigned it) holds the lock of the peer whose clock it is: the
\* workload thread of the peer itself, or the worker serving a call at it.
LockDiscipline ==
    /\ \A p \in Peers :
           pc[p] \in {"req_inc", "resp_upd", "prt_inc", "prt_upd", "rel_inc"}
               => lock[p] = p
    /\ \A q \in Peers :
           (rpc[q].kind # "none" /\ rpc[q].phase \in {"upd", "inc"})
               => lock[rpc[q].tgt] = q

\* C19: under fair scheduling a peer that has entered its critical section
\* eventually executes release_critical_section (requesting becomes false),
\* whether SendToPrinter returns a response or raises a transport error.
ReleaseAfterPrint ==
    \A p \in Peers : InCriticalSection(p) ~> ~requesting[p]

\* C19's case: the print server is unreachable, peer 1's SendToPrinter has
\* failed, and peer 1 has cleared requesting in release_critical_section.
ReleaseAfterPrintWitness ==
    /\ ~printer_up
    /\ request_number[1] = 1
    /\ pc[1] \in ReleasePcs \ {"release"}
    /\ ~requesting[1]

\* The stage of its cycle a peer's workload is in.
Phase(p) ==
    IF pc[p] \in RequestPcs THEN "Requesting"
    ELSE IF pc[p] \in CriticalPcs THEN "InCriticalSection"
    ELSE IF pc[p] \in ReleasePcs THEN "Releasing"
    ELSE "Idle"

\* C20: each peer moves Idle -> Requesting -> InCriticalSection -> (release)
\* -> Idle and in no other way; a request is started only from Idle, and the
\* only RequestAccess call a peer has under way is for its current request,
\* while it is Requesting.
SequentialCycles ==
    [][\A p \in Peers :
          /\ Phase(p)' # Phase(p) =>
                 <<Phase(p), Phase(p)'>> \in
                     { <<"Idle", "Requesting">>,
                       <<"Requesting", "InCriticalSection">>,
                       <<"InCriticalSection", "Releasing">>,
                       <<"Releasing", "Idle">> }
          /\ request_number'[p] # request_number[p] =>
                 /\ Phase(p) = "Idle" /\ Phase(p)' = "Requesting"
                 /\ request_number'[p] = request_number[p] + 1
          /\ rpc'[p].kind = "req" =>
                 /\ Phase(p)' = "Requesting"
                 /\ rpc'[p].num = request_number'[p]]_vars

\* C20's case: peer 1 is requesting for the second time, its first cycle
\* released.
SequentialCyclesWitness ==
    /\ Phase(1) = "Requesting"
    /\ request_number[1] = 2
    /\ release_timestamp[1] > 0
    /\ rpc[1].kind = "req"


----------------------------------------------------------------------------
(* C21: a peer's SendToPrinter call is under way only between reaching the *)
(* quorum of its current request and its release: whenever the workload is *)
(* inside send_to_printer, or its print call is in flight, requesting is   *)
(* true and replies_received is at least len(other_clients).               *)

PrintOnlyWithQuorum ==
    \A p \in Peers :
        (pc[p] \in {"prt_inc", "prt_await", "prt_upd"} \/ prn[p].phase # "none")
            => /\ requesting[p]
               /\ replies_received[p] >= Len(other_clients[p])

PrintOnlyWithQuorumWitness ==
    /\ prn[1].phase = "sent"
    /\ Len(other_clients[1]) = 2
    /\ replies_received[1] = 2
    /\ requesting[1]


\* Peers a and b have each handled the other's request while their own was
\* outstanding, neither has released since, and a's request is the smaller.
MutualContention(a, b) ==
    /\ a # b
    /\ dec[a][b].made /\ dec[a][b].was_requesting
    /\ dec[b][a].made /\ dec[b][a].was_requesting
    /\ TupleLess(<<dec[a][b].own_ts, a>>, <<dec[a][b].ts, b>>)

\* C22: critical-section entries follow the request priority: when two peers
\* have each handled the other's request while their own was outstanding, the
\* peer with the larger (timestamp, id) is not in its critical section unless
\* the peer with the smaller one has entered its own first.
EntriesFollowPriority ==
    \A a, b \in Peers :
        (MutualContention(a, b) /\ InCriticalSection(b)) => InCriticalSection(a)


\* Peer q has counted an access_granted=false answer of peer P for its current
\* request, and P has not run release_critical_section since it gave it.
DeferredBy(P, q) ==
    /\ <<P, "defer">> \in Outcomes(q)
    /\ dec[P][q].made
    /\ ~dec[P][q].granted
    /\ dec[P][q].num = request_number[q]

\* C23: a requester whose request peer P deferred enters its critical section
\* only after P has run release_critical_section: it is not in its critical
\* section while P's deferral stands.
DeferredWaitsForRelease ==
    \A P, q \in Peers : DeferredBy(P, q) => ~InCriticalSection(q)


ClockWritten(p) ==
    \/ StampRequest(p)
    \/ UpdateFromResponse(p)
    \/ SendToPrinter(p)
    \/ UpdateFromPrint(p)
    \/ StampRelease(p)
    \/ \E q \in Peers :
          /\ rpc[q].tgt = p
          /\ HandlerUpdateWrite(q) \/ RequestAccessRespond(q) \/ ReleaseAccessRespond(q)

\* C25: clock monotonicity under concurrency: a peer's clock never decreases
\* from one state to the next, and no increment or update is lost: the step
\* that completes one leaves the clock above the value it had just before.
ClockMonotonic ==
    [][\A p \in Peers :
          /\ time'[p] >= time[p]
          /\ ClockWritten(p) => time'[p] > time[p]]_vars


\* C26: starting a request cycle is one lock-protected step.  The workload
\* takes the lock, sets requesting and adds one to request_number; it holds the
\* lock, and nobody else changes the peer's request state, until it has set
\* request_timestamp to the clock value its increment produced and
\* replies_received to 0; the deferred queue is the same throughout.  Outside
\* the block request_number counts the requests stamped, and the timestamp of
\* an outstanding request is the one stamped last.
StartOfCycleAtomic ==
    /\ [][\A p \in Peers :
            /\ (pc[p] = "idle" /\ pc'[p] = "req_inc")
                  => /\ lock[p] = 0 /\ lock'[p] = p
                     /\ requesting'[p]
                     /\ request_number'[p] = request_number[p] + 1
                     /\ rd'[p] = time[p]
                     /\ deferred_requests'[p] = deferred_requests[p]
            /\ (pc[p] = "req_inc" /\ pc'[p] = "req_inc")
                  => /\ lock[p] = p /\ lock'[p] = p
                     /\ requesting'[p] = requesting[p]
                     /\ request_number'[p] = request_number[p]
                     /\ request_timestamp'[p] = request_timestamp[p]
                     /\ replies_received'[p] = replies_received[p]
                     /\ deferred_requests'[p] = deferred_requests[p]
            /\ (pc[p] = "req_inc" /\ pc'[p] # "req_inc")
                  => /\ lock[p] = p /\ lock'[p] = 0
                     /\ requesting'[p]
                     /\ request_number'[p] = request_number[p]
                     /\ request_timestamp'[p] = rd[p] + 1
                     /\ request_timestamp'[p] = time'[p]
                     /\ replies_received'[p] = 0
                     /\ deferred_requests'[p] = deferred_requests[p]]_vars
    /\ [](\A p \in Peers :
            pc[p] # "req_inc"
                => /\ request_number[p] = Len(issued[p])
                   /\ requesting[p] => request_timestamp[p] = issued[p][Len(issued[p])])

StartOfCycleWitness ==
    /\ pc[1] = "send"
    /\ request_number[1] = 2
    /\ Len(issued[1]) = 2
    /\ requesting[1]
    /\ replies_received[1] = 0
    /\ request_timestamp[1] = time[1]
    /\ rpc[2].kind = "req"


\* C27: release_critical_section clears requesting, empties the deferred queue
\* and increments the clock once inside one lock-protected step; it then sends
\* one ReleaseAccess, stamped with the value of that increment, to each
\* configured peer in turn, and a send that fails is not repeated and does not
\* stop the sends to the peers after it.
ReleaseBroadcast ==
    [][\A p \in Peers :
          /\ (pc[p] = "release" /\ pc'[p] = "rel_inc")
                => /\ lock[p] = 0 /\ lock'[p] = p
                   /\ ~requesting'[p]
                   /\ deferred_requests'[p] = <<>>
                   /\ rd'[p] = time[p]
          /\ (pc[p] = "rel_inc" /\ pc'[p] = "rel_inc")
                => /\ lock'[p] = p
                   /\ ~requesting'[p]
                   /\ deferred_requests'[p] = <<>>
          /\ (pc[p] = "rel_inc" /\ pc'[p] # "rel_inc")
                => /\ lock[p] = p /\ lock'[p] = 0
                   /\ ~requesting'[p]
                   /\ deferred_requests'[p] = <<>>
                   /\ time'[p] = rd[p] + 1
                   /\ release_timestamp'[p] = time'[p]
                   /\ idx'[p] = 1
                   /\ pc'[p] = IF Len(other_clients[p]) > 0 THEN "rel_send" ELSE "idle"
          /\ (pc[p] = "rel_send" /\ pc'[p] # "rel_send")
                => /\ pc'[p] = "rel_await"
                   /\ rpc'[p].kind = "rel"
                   /\ rpc'[p].tgt = other_clients[p][idx[p]]
                   /\ rpc'[p].ts = release_timestamp[p]
                   /\ idx'[p] = idx[p]
          /\ (pc[p] = "rel_await" /\ pc'[p] # "rel_await")
                => /\ idx'[p] = idx[p] + 1
                   /\ pc'[p] = IF idx[p] < Len(other_clients[p]) THEN "rel_send" ELSE "idle"
          /\ (pc[p] \in {"rel_send", "rel_await"})
                => /\ release_timestamp'[p] = release_timestamp[p]
                   /\ lock[p] # p]_vars

ReleaseBroadcastWitness ==
    /\ ~up[1]
    /\ rpc[2].kind = "rel"
    /\ rpc[2].tgt = 3
    /\ rpc[2].phase = "resp"
    /\ rpc[2].ts = release_timestamp[2]
    /\ time[2] > release_timestamp[2]


\* The peers whose answer or failure peer p has counted in its current cycle,
\* in the order of counting.
CountedPeers(p) == [i \in 1..Len(counted[p]) |-> counted[p][i][1]]

\* C28: within one request cycle every configured peer is sent exactly one
\* RequestAccess: the k-th message goes to the k-th entry of other_clients once
\* the k-1 before it have been counted, all messages carry the request
\* timestamp and the request number stamped at the start of the cycle whatever
\* the clock has become since, and when the peer enters its critical section
\* the peers it has counted are exactly other_clients.
OneRequestPerPeer ==
    /\ [][\A p \in Peers :
            (pc[p] = "send" /\ pc'[p] # "send")
                => /\ pc'[p] = "await"
                   /\ rpc'[p].kind = "req"
                   /\ rpc'[p].tgt = other_clients[p][Len(counted[p]) + 1]
                   /\ rpc'[p].ts = issued[p][Len(issued[p])]
                   /\ rpc'[p].ts = request_timestamp[p]
                   /\ rpc'[p].num = Len(issued[p])
                   /\ rpc'[p].num = request_number[p]]_vars
    /\ [](\A p \in Peers : pc[p] = "cs" => CountedPeers(p) = other_clients[p])

OneRequestPerPeerWitness ==
    /\ rpc[1].kind = "req"
    /\ rpc[1].tgt = 3
    /\ rpc[1].ts = TieStamp
    /\ CountedPeers(1) = <<2>>
    /\ time[1] > TieStamp + 1


\* The thread that holds peer t's lock can take its next step, which gives the
\* lock back: it waits for nothing.
HolderProceeds(t) ==
    /\ lock[t] = t => ENABLED (StampRequest(t) \/ StampRelease(t))
    /\ \A q \in Peers \ {t} :
          lock[t] = q => ENABLED (RequestAccessRespond(q) \/ ReleaseAccessRespond(q))

\* C29: a peer's workload thread never holds the peer's lock while one of its
\* outbound calls is in flight or while it sleeps in the quorum wait; whoever
\* holds a lock waits for nothing, so no cycle of lock waits exists; and under
\* fair scheduling an inbound handler that waits for the lock acquires it.
NoLockAcrossCalls ==
    /\ [](\A p \in Peers :
            /\ (rpc[p].kind # "none" \/ prn[p].phase # "none" \/ pc[p] = "poll")
                  => lock[p] # p
            /\ HolderProceeds(p))
    /\ \A q \in Peers : (rpc[q].phase = "lock") ~> (rpc[q].phase = "inc")

NoLockAcrossCallsWitness ==
    /\ rpc[1].kind = "req"
    /\ rpc[1].phase = "sent"
    /\ rpc[2].kind = "req"
    /\ rpc[2].tgt = 1
    /\ lock[1] = 2


\* C30: the Lamport receive rule.  When a handler has finished with an access
\* request or a release notice that carried timestamp t, the peer's clock is
\* above t, and the timestamp of the answer to an access request is above the
\* request's; when the workload has taken in the answer to one of its calls,
\* its clock is above the answer's timestamp.
LamportReceiveRule ==
    [][\A q \in Peers :
          /\ (rpc[q].phase = "inc" /\ rpc'[q].phase = "resp")
                => /\ time'[rpc[q].tgt] > rpc[q].ts
                   /\ rpc[q].kind = "req" => rpc'[q].rts > rpc[q].ts
          /\ (pc[q] = "resp_upd" /\ pc'[q] # "resp_upd")
                => time'[q] > rpc[q].rts
          /\ (pc[q] = "prt_upd" /\ pc'[q] # "prt_upd")
                => time'[q] > prn[q].rts]_vars


\* Peer P has answered the access request of peer Q that is still under way.
Answered(P, Q) ==
    /\ rpc[Q].kind = "req"
    /\ rpc[Q].tgt = P
    /\ rpc[Q].phase = "resp"

\* C31: once peer P has answered a request of peer Q that carried timestamp t,
\* every request P starts afterwards is stamped above t.  (P's locked block
\* cannot overlap the handler's, so an answer that is there while P stamps was
\* given before P started.)
StampsAboveAnswered ==
    [][\A P, Q \in Peers :
          (Answered(P, Q) /\ pc[P] = "req_inc" /\ pc'[P] # "req_inc")
              => request_timestamp'[P] > rpc[Q].ts]_vars


\* C32: while a peer is in its critical section (quorum reached, release not
\* yet started) its RequestAccess handler never decides access_granted=true.
NoGrantInCriticalSection ==
    [][\A q \in Peers :
          (rpc[q].kind = "req" /\ rpc[q].phase = "lock" /\ rpc'[q].phase = "inc"
             /\ InCriticalSection(rpc[q].tgt))
              => ~rpc'[q].granted]_vars


\* C33: in every reachable state a peer's deferred queue is empty whenever its
\* requesting flag is false.
QueueEmptyWhenIdle ==
    \A p \in Peers : ~requesting[p] => deferred_requests[p] = <<>>

QueueEmptyWhenIdleWitness ==
    /\ <<1, "defer">> \in Outcomes(2)
    /\ InCriticalSection(2)
    /\ request_number[1] = 1
    /\ ~requesting[1]
    /\ deferred_requests[1] = <<>>


\* C34: in every reachable state every entry (peer id, timestamp) of a peer's
\* deferred queue has lower priority than the peer's own current request:
\* (request_timestamp, client_id) < (timestamp, peer id).
QueuedBelowOwn ==
    \A p \in Peers : \A i \in 1..Len(deferred_requests[p]) :
        TupleLess(<<request_timestamp[p], p>>,
                  <<deferred_requests[p][i][2], deferred_requests[p][i][1]>>)

QueuedBelowOwnWitness ==
    /\ requesting[1]
    /\ request_timestamp[1] = 1
    /\ Holds(deferred_requests[1], <<2, 1>>)


\* C35: in every reachable state a peer's deferred queue holds at most one
\* entry per remote peer id, so it is never longer than other_clients.
OneEntryPerPeer ==
    \A p \in Peers :
        /\ Len(deferred_requests[p]) <= Len(other_clients[p])
        /\ \A i, j \in 1..Len(deferred_requests[p]) :
              deferred_requests[p][i][1] = deferred_requests[p][j][1] => i = j


\* C36: in every reachable state 0 <= replies_received <= len(other_clients),
\* and replies_received is the number of sends of the current cycle that have
\* returned: every RequestAccess send adds exactly one when it returns, with a
\* grant, a deferral or a transport error, nothing else adds to it, and the
\* start of a cycle sets it to 0.
RepliesBounded ==
    /\ [](\A p \in Peers :
            /\ 0 <= replies_received[p]
            /\ replies_received[p] <= Len(other_clients[p])
            /\ replies_received[p] = Len(counted[p])
            /\ pc[p] \in {"send", "await", "resp_upd", "count", "count_err"}
                  => replies_received[p] = idx[p] - 1)
    /\ [][\A p \in Peers :
            /\ (pc[p] \in {"count", "count_err"} /\ pc'[p] # pc[p])
                  => replies_received'[p] = replies_received[p] + 1
            /\ (pc[p] = "req_inc" /\ pc'[p] # "req_inc")
                  => replies_received'[p] = 0
            /\ (replies_received'[p] # replies_received[p])
                  => pc[p] \in {"count", "count_err", "req_inc"}]_vars

RepliesBoundedWitness ==
    /\ request_number[1] = 2
    /\ pc[1] = "cs"
    /\ replies_received[1] = 1
    /\ counted[1] = <<<<2, "error">>>>


\* A step of the RequestAccess handler that serves peer q's call.
HandlesRequest(q) ==
    /\ rpc[q].kind = "req"
    /\ \/ HandlerUpdateRead(q)
       \/ HandlerUpdateWrite(q)
       \/ RequestAccessDecide(q)
       \/ RequestAccessRespond(q)

\* C37: handling an inbound RequestAccess never changes the receiver's
\* requesting flag, request_timestamp, request_number or replies_received; of
\* the receiver's state it changes only the clock and, when it defers, the
\* deferred queue, by one appended entry; so from the stamping of a request to
\* its release the peer is requesting with the record it stamped.
RequestHandlerFrame ==
    /\ [][\A q \in Peers : HandlesRequest(q) =>
            LET t == rpc[q].tgt IN
            /\ requesting' = requesting
            /\ request_timestamp' = request_timestamp
            /\ request_number' = request_number
            /\ replies_received' = replies_received
            /\ \A p \in Peers \ {t} :
                  time'[p] = time[p] /\ deferred_requests'[p] = deferred_requests[p]
            /\ deferred_requests'[t] # deferred_requests[t]
                  => /\ ~rpc'[q].granted
                     /\ deferred_requests'[t] = Append(deferred_requests[t], <<q, rpc[q].ts>>)]_vars
    /\ [](\A p \in Peers :
            pc[p] \in (RequestPcs \cup CriticalPcs) \ {"req_inc"}
                => /\ requesting[p]
                   /\ request_timestamp[p] = issued[p][Len(issued[p])]
                   /\ request_number[p] = Len(issued[p]))

RequestHandlerFrameWitness ==
    /\ Answered(1, 2)
    /\ ~rpc[2].granted
    /\ dec[1][2].was_requesting
    /\ requesting[1]
    /\ request_timestamp[1] = dec[1][2].own_ts
    /\ Holds(deferred_requests[1], <<2, rpc[2].ts>>)
    /\ time[1] > dec[1][2].own_ts

====
